---- MODULE Spec2Model ----
(***************************************************************************)
(* MachineAttritionWorkload (fdbserver/workloads/MachineAttrition.actor.cpp) *)
(*                                                                         *)
(* One workload instance: its options, the target pool, the simulated      *)
(* scheduler machineKillWorker, the live-cluster scheduler                 *)
(* noSimMachineKillWorker, the suppression window                          *)
(* ignoreSSFailuresForDuration and the outer timeout() of start().         *)
(*                                                                         *)
(* Flow actors are cooperative: an actor runs without interruption from    *)
(* one wait() to the next.  Every value of pc below that is listed in      *)
(* Waits is a real wait() of the source; the other values are program      *)
(* points inside one uninterrupted stretch, where no timer can fire.       *)
(***************************************************************************)
EXTENDS Integers, Sequences, FiniteSets, TLC

\* ---------------------------------------------------------------- bounds
\* Largest machinesToKill and machinesToLeave that Init enumerates.
MaxKill == 2
MaxLeave == 1

\* ------------------------------------------------------------- Optional<T>
\* Optional<Standalone<StringRef>>: the absent value is a string no identifier
\* equals; a present value is the identifier itself.
None == "(absent)"
Some(v) == v
present(o) == o # None
get(o) == o

\* ------------------------------------------------------------ kill kinds
KillInstantly == "KillInstantly"
InjectFaults == "InjectFaults"
RebootAndDelete == "RebootAndDelete"
Reboot == "Reboot"

TesterClass == "TesterClass"
StorageClass == "StorageClass"

ignoreSSFailuresZoneString == "IgnoreSSFailures"

\* --------------------------------------------------------- the clusters
\* LocalityData: the scope identifiers of one member, each optional.
LocalityData(zone, machine, dc, hall, process) ==
    [zoneId |-> zone, machineId |-> machine, dcId |-> dc,
     dataHallId |-> hall, processId |-> process]

\* ISimulator::ProcessInfo, the fields getServers() reads.
ProcessInfo(nm, isFailed, cls, loc) ==
    [name |-> nm, failed |-> isFailed, startingClass |-> cls, locality |-> loc]

\* WorkerDetails, the fields noSimMachineKillWorker reads; interf stands for
\* the worker's reboot endpoint and identifies the worker.
WorkerDetails(endpoint, cls, loc) ==
    [interf |-> endpoint, processClass |-> cls, locality |-> loc]

\* What g_simulator.getAllProcesses() may return: clusters of zero to three
\* live server zones, with a tester, a failed process, a non-server process
\* and a second process of zone z2 mixed in.
SimClusters ==
    LET pA  == ProcessInfo("Server", FALSE, StorageClass,
                   LocalityData(Some("z1"), Some("m1"), Some("a"), None, Some("p1")))
        pB  == ProcessInfo("Server", FALSE, StorageClass,
                   LocalityData(Some("z2"), Some("m2"), Some("b"), None, Some("p2")))
        pB2 == ProcessInfo("Server", FALSE, StorageClass,
                   LocalityData(Some("z2"), Some("m2"), Some("b"), None, Some("p3")))
        pC  == ProcessInfo("Server", FALSE, StorageClass,
                   LocalityData(Some("z3"), Some("m3"), Some("a"), None, Some("p4")))
        pT  == ProcessInfo("Server", FALSE, TesterClass,
                   LocalityData(Some("z4"), Some("m4"), Some("a"), None, Some("p5")))
        pF  == ProcessInfo("Server", TRUE, StorageClass,
                   LocalityData(Some("z5"), Some("m5"), Some("b"), None, Some("p6")))
        pN  == ProcessInfo("TestSystem", FALSE, StorageClass,
                   LocalityData(Some("z6"), Some("m6"), Some("b"), None, Some("p7")))
    IN  { <<>>, <<pT, pA>>, <<pA, pF, pB, pB2>>, <<pA, pB, pN, pC, pB2, pT>> }

\* What the cluster controller's getWorkers may reply: rosters mixing tester
\* and non-tester workers whose scope identifiers are equal, different or
\* absent.
LiveClusters ==
    LET wT1 == WorkerDetails("w1", TesterClass,
                   LocalityData(Some("z1"), Some("a"), Some("a"), None, Some("a")))
        wT2 == WorkerDetails("w2", TesterClass,
                   LocalityData(Some("z2"), Some("b"), Some("a"), Some("a"), Some("b")))
        wT3 == WorkerDetails("w3", TesterClass,
                   LocalityData(Some("z3"), Some("a"), None, Some("b"), None))
        wS1 == WorkerDetails("w4", StorageClass,
                   LocalityData(Some("z4"), Some("a"), Some("a"), Some("a"), Some("c")))
        wS2 == WorkerDetails("w5", StorageClass,
                   LocalityData(Some("z5"), Some("b"), Some("b"), None, Some("a")))
    IN  { <<>>, <<wS1>>, <<wT1, wS1>>, <<wS1, wT1, wT2, wS2>>, <<wT1, wS1, wT2, wT3>> }

\* Values of the targetId option; "" is the default (no override).
TargetIds == {"", "a", "b"}

\* ----------------------------------------------------------------- state
VARIABLES
    clientId,         \* WorkloadContext::clientId
    simulated,        \* g_network->isSimulated()
    self,             \* the options read by the constructor (lines 83-97)
    allProcesses,     \* g_simulator.getAllProcesses()
    allWorkers,       \* the reply to GetWorkersRequest
    machines,         \* self->machines, the simulated run's target pool
    workers,          \* the live run's target pool
    shuffled,         \* the pool as the shuffle of the run left it
    killedMachines,   \* the runs' local counter
    targetMachine,    \* machineKillWorker's state variable of line 308
    pc,               \* where the run is
    late,             \* a wait of unbounded length has already taken time
    ignoreSSFailures, \* self->ignoreSSFailures: 0 is the ready value true,
                      \* i > 0 the future of window i
    windows,          \* the ignoreSSFailuresForDuration actors started so far
    healthyZone,      \* the value stored under healthyZoneKey
    killed,           \* targets of the kill actions issued, oldest first
    lastAction,       \* the kill action issued most recently
    errors            \* the errors the run has thrown to start()'s caller

env == <<clientId, simulated, self, allProcesses, allWorkers>>
pool == <<machines, workers, shuffled>>
store == <<ignoreSSFailures, windows, healthyZone>>
log == <<killed, lastAction, errors>>
vars == <<env, pool, store, log, killedMachines, targetMachine, pc, late>>

\* wait() points of machineKillWorker, of noSimMachineKillWorker and of start.
SimWaits == {"dcDelay", "delay", "getReadVersion", "onError",
             "setHealthyZone", "setHealthyZoneRetry", "cooldown"}
LiveWaits == {"getWorkers", "noSimGetReadVersion", "noSimOnError"}
Waits == SimWaits \cup LiveWaits
\* How a run has ended: returned Void, threw please_reboot, was cut off by
\* timeout() (which then yields Void), failed an ASSERT, or ran into
\* undefined behaviour and crashed.
Ended == {"done", "thrown", "timedOut", "error", "undefined"}

\* A call of the cluster control: g_simulator.killDataCenter(target, kt),
\* g_simulator.killZone(target, kt), g_simulator.rebootProcess(target, flag),
\* or, against a live cluster, reboot.send(rbReq) to a worker's endpoint.
Action(p, t, k, f, w) ==
    [prim |-> p, target |-> t, kt |-> k, flag |-> f, waitForDuration |-> w]
NoAction == Action("none", None, "none", FALSE, "none")

\* The marker setHealthyZone(cx, zoneId, seconds) commits under
\* healthyZoneKey; writer is 0 for the run itself and i for window i.
healthyZoneValue(zoneId, writer) == [zone |-> zoneId, writer |-> writer]
\* healthyZoneKey holds nothing.
NoHealthyZone == healthyZoneValue(None, 0)

\* MachineAttritionWorkload::MachineAttritionWorkload.  enabled is the
\* conjunction of line 83; an option the selected variant never reads keeps
\* the default the constructor gives it.
Options(kill, leave, rb, dc, mach, hall, proc, slf, tgt, repl, wfv, afi) ==
    [enabled |-> (clientId = 0 /\ simulated),
     machinesToKill |-> kill, machinesToLeave |-> leave,
     reboot |-> rb, killDc |-> dc, killMachine |-> mach,
     killDatahall |-> hall, killProcess |-> proc, killSelf |-> slf,
     targetId |-> tgt, replacement |-> repl, waitForVersion |-> wfv,
     allowFaultInjection |-> afi]

InitRun ==
    /\ machines = <<>>
    /\ workers = <<>>
    /\ shuffled = <<>>
    /\ killedMachines = 0
    /\ targetMachine = LocalityData(None, None, None, None, None)
    /\ pc = "constructed"
    /\ late = FALSE
    /\ ignoreSSFailures = 0
    /\ windows = <<>>
    /\ healthyZone = NoHealthyZone
    /\ killed = <<>>
    /\ lastAction = NoAction
    /\ errors = <<>>

\* The first client of a simulated test.
InitSim ==
    /\ clientId = 0
    /\ simulated = TRUE
    /\ allProcesses \in SimClusters
    /\ allWorkers = <<>>
    /\ \E kill \in 1..MaxKill, leave \in 0..MaxLeave, tgt \in TargetIds,
          rb, dc, slf, repl, wfv, afi \in BOOLEAN :
          self = Options(kill, leave, rb, dc, FALSE, FALSE, FALSE, slf, tgt,
                         repl, wfv, afi)
    /\ InitRun

\* The first client of a test against a live cluster.
InitLive ==
    /\ clientId = 0
    /\ simulated = FALSE
    /\ allProcesses = <<>>
    /\ allWorkers \in LiveClusters
    /\ \E kill \in 1..MaxKill, leave \in 0..MaxLeave, tgt \in TargetIds,
          rb, dc, mach, hall, proc, slf, wfv \in BOOLEAN :
          self = Options(kill, leave, rb, dc, mach, hall, proc, slf, tgt,
                         FALSE, wfv, TRUE)
    /\ InitRun

\* Any other client.
InitOther ==
    /\ clientId = 1
    /\ simulated \in BOOLEAN
    /\ allProcesses = <<>>
    /\ allWorkers = <<>>
    /\ \E slf \in BOOLEAN :
          self = Options(2, 1, FALSE, FALSE, FALSE, FALSE, FALSE, slf, "",
                         FALSE, FALSE, TRUE)
    /\ InitRun

Init == InitSim \/ InitLive \/ InitOther

\* -------------------------------------------------------------- helpers
back(s) == s[Len(s)]
pop_back(s) == SubSeq(s, 1, Len(s) - 1)

\* deterministicRandom()->randomShuffle: every ordering of the elements.
randomShuffle(S) ==
    { s \in [1..Cardinality(S) -> S] : \A i, j \in 1..Cardinality(S) : i # j => s[i] # s[j] }

Elements(s) == { s[i] : i \in DOMAIN s }

\* getServers(): the processes that are not failed, are named "Server" and
\* were not started as testers.
getServers(all) ==
    SelectSeq(all, LAMBDA p : ~p.failed /\ p.name = "Server"
                              /\ p.startingClass # TesterClass)

\* machineIDMap of start(): one locality per zoneId, the one of the last
\* process of that zone in getServers() order.
machineIDMap(processes) ==
    { processes[i].locality : i \in
        { i \in DOMAIN processes : \A j \in DOMAIN processes :
            j > i => processes[j].locality.zoneId # processes[i].locality.zoneId } }

\* Mutants of WhileCondition: one event too many; the floor itself is killed.
WhileCondition_OneMore(km, size) ==
    km <= self.machinesToKill /\ size > self.machinesToLeave
WhileCondition_AtFloor(km, size) ==
    km < self.machinesToKill /\ size >= self.machinesToLeave /\ size > 0

\* The while condition of both schedulers (lines 220 and 284).
WhileCondition(km, size) ==
    km < self.machinesToKill /\ size > self.machinesToLeave

\* Mutant of Exit: killSelf is ignored.
Exit_NoThrow == pc' = "done" /\ errors' = errors

\* Lines 354-356: leaving machineKillWorker.
Exit ==
    IF self.killSelf
    THEN pc' = "thrown" /\ errors' = Append(errors, "please_reboot")
    ELSE pc' = "done" /\ errors' = errors

\* The top of the while loop of machineKillWorker, reached without a wait:
\* either the wait of line 290 or the exit.
LoopTop(km, m) ==
    IF WhileCondition(km, Len(m))
    THEN pc' = "delay" /\ errors' = errors
    ELSE Exit

\* Future<bool>::isReady() of self->ignoreSSFailures.
Ready(f) == IF f = 0 THEN TRUE ELSE windows[f] = "done"

\* Line 147: check() returns self->ignoreSSFailures; whether that future is
\* resolved.
check == Ready(ignoreSSFailures)

\* ------------------------------------------------- start(), simulated run
\* start(), lines 115-136, and machineKillWorker up to its first wait.
StartSim ==
    /\ pc = "constructed"
    /\ self.enabled
    /\ \E m \in randomShuffle(machineIDMap(getServers(allProcesses))) :
          /\ machines' = m
          /\ shuffled' = m
          /\ IF self.killDc
             THEN pc' = "dcDelay" /\ errors' = errors
             ELSE LoopTop(0, m)
    /\ UNCHANGED <<env, workers, store, killed, lastAction, killedMachines,
                   targetMachine, late>>

\* Lines 270-279: the kill type of the datacenter kill; killType is the draw
\* of randomInt(0, 3).
dcKillType(killType) ==
    IF self.reboot THEN Reboot
    ELSE IF killType = 0 THEN KillInstantly
    ELSE IF killType = 1 THEN InjectFaults
    ELSE RebootAndDelete

\* Mutant of DataCenterKill: after the datacenter kill the run falls into the
\* per-event loop instead of leaving.
DataCenterKill_ThenLoop ==
    /\ pc = "dcDelay"
    /\ Len(machines) > 0
    /\ \E killType \in 0..2 :
          lastAction' = Action("killDataCenter", back(machines).dcId,
                               dcKillType(killType), FALSE, "none")
    /\ killed' = Append(killed, back(machines).dcId)
    /\ LoopTop(killedMachines, machines)
    /\ UNCHANGED <<env, pool, store, killedMachines, targetMachine, late>>

\* Lines 264-282, then 354-356: the datacenter kill.  With an empty pool the
\* ASSERT of line 267 fails and the run ends with that error.
DataCenterKill ==
    /\ pc = "dcDelay"
    /\ IF Len(machines) = 0
       THEN /\ pc' = "error"
            /\ errors' = Append(errors, "internal_error")
            /\ UNCHANGED <<killed, lastAction>>
       ELSE LET target == back(machines).dcId IN
            /\ \E killType \in 0..2 :
                  lastAction' = Action("killDataCenter", target,
                                       dcKillType(killType), FALSE, "none")
            /\ killed' = Append(killed, target)
            /\ Exit
    /\ UNCHANGED <<env, pool, store, killedMachines, targetMachine, late>>

\* Mutant of AfterDelay: the gate of lines 293-305 is passed over.
AfterDelay_NoGate ==
    /\ pc = "delay"
    /\ pc' = "decide"
    /\ UNCHANGED <<env, pool, store, log, killedMachines, targetMachine, late>>

\* Lines 290-293: the delay before the kill has elapsed.
AfterDelay ==
    /\ pc = "delay"
    /\ pc' = IF self.waitForVersion THEN "getReadVersion" ELSE "decide"
    /\ UNCHANGED <<env, pool, store, log, killedMachines, targetMachine, late>>

\* Lines 295-300: tr.getReadVersion() answers, with a version or an error.
GetReadVersion ==
    /\ pc = "getReadVersion"
    /\ \E ok \in BOOLEAN :
          IF ok THEN pc' = "decide" /\ late' = TRUE
                ELSE pc' = "onError" /\ late' = late
    /\ UNCHANGED <<env, pool, store, log, killedMachines, targetMachine>>

\* Lines 301-303: tr.onError(e) has backed off; the loop tries again.
OnError ==
    /\ pc = "onError"
    /\ pc' = "getReadVersion"
    /\ UNCHANGED <<env, pool, store, log, killedMachines, targetMachine, late>>

\* Line 308 with neither BUGGIFY branch taken.
DecideNone ==
    /\ pc = "decide"
    /\ targetMachine' = back(machines)
    /\ pc' = "kill"
    /\ UNCHANGED <<env, pool, store, log, killedMachines, late>>

\* Lines 308-312: the target zone is marked for maintenance first; the run
\* waits for setHealthyZone.
DecideMaintenance ==
    /\ pc = "decide"
    /\ targetMachine' = back(machines)
    /\ pc' = "setHealthyZone"
    /\ UNCHANGED <<env, pool, store, log, killedMachines, late>>

\* Lines 313-317: a suppression window is started and kept in
\* self->ignoreSSFailures; the run does not wait for it here.
DecideSuppression ==
    /\ pc = "decide"
    /\ targetMachine' = back(machines)
    /\ windows' = Append(windows, "setHealthyZone")
    /\ ignoreSSFailures' = Len(windows) + 1
    /\ pc' = "kill"
    /\ UNCHANGED <<env, pool, healthyZone, log, killedMachines, late>>

\* Mutant of SetHealthyZone: the run goes on to the kill without the commit
\* of the marker.
SetHealthyZone_NotAwaited ==
    /\ pc = "setHealthyZone"
    /\ pc' = "kill"
    /\ UNCHANGED <<env, pool, store, log, killedMachines, targetMachine, late>>

\* The setHealthyZone of line 311-312 commits, or meets a conflict.
SetHealthyZone ==
    /\ pc = "setHealthyZone"
    /\ \E ok \in BOOLEAN :
          IF ok
          THEN /\ healthyZone' = healthyZoneValue(get(targetMachine.zoneId), 0)
               /\ pc' = "kill"
               /\ late' = TRUE
          ELSE /\ pc' = "setHealthyZoneRetry"
               /\ UNCHANGED <<healthyZone, late>>
    /\ UNCHANGED <<env, pool, ignoreSSFailures, windows, log, killedMachines,
                   targetMachine>>

SetHealthyZoneRetry ==
    /\ pc = "setHealthyZoneRetry"
    /\ pc' = "setHealthyZone"
    /\ UNCHANGED <<env, pool, store, log, killedMachines, targetMachine, late>>

\* Mutant of decideAction: the test of self->reboot is inverted.
decideAction_Inverted(zoneId, r1, r2) ==
    IF ~self.reboot
    THEN IF r1 THEN Action("rebootProcess", zoneId, "none", r2, "none")
               ELSE Action("killZone", zoneId, Reboot, FALSE, "none")
    ELSE IF r1 THEN Action("killZone", zoneId, RebootAndDelete, FALSE, "none")
         ELSE Action("killZone", zoneId,
                     IF r2 \/ ~self.allowFaultInjection
                     THEN KillInstantly ELSE InjectFaults,
                     FALSE, "none")

\* Lines 325-341, the kill-mode decision: r1 and r2 are the two random draws.
decideAction(zoneId, r1, r2) ==
    IF self.reboot
    THEN IF r1 THEN Action("rebootProcess", zoneId, "none", r2, "none")
               ELSE Action("killZone", zoneId, Reboot, FALSE, "none")
    ELSE IF r1 THEN Action("killZone", zoneId, RebootAndDelete, FALSE, "none")
         ELSE Action("killZone", zoneId,
                     IF r2 \/ ~self.allowFaultInjection
                     THEN KillInstantly ELSE InjectFaults,
                     FALSE, "none")

\* Mutant of AfterKill: the head of the pool is removed instead of the tail.
AfterKill_PopFront(m) == IF ~self.replacement THEN SubSeq(m, 2, Len(m)) ELSE m

\* Mutant of AfterKill: the tail is removed whatever replacement says.
AfterKill_AlwaysPop(m) == pop_back(m)

\* Lines 343-345: the pool after a kill.
AfterKill(m) == IF ~self.replacement THEN pop_back(m) ELSE m

\* Mutant of Kill: the event is not counted.
Kill_NotCounted ==
    /\ pc = "kill"
    /\ \E r1, r2 \in BOOLEAN :
          lastAction' = decideAction(targetMachine.zoneId, r1, r2)
    /\ killed' = Append(killed, targetMachine.zoneId)
    /\ machines' = AfterKill(machines)
    /\ pc' = "cooldown"
    /\ UNCHANGED <<env, workers, shuffled, store, errors, killedMachines,
                   targetMachine, late>>

\* Lines 319-347: the kill of one event, up to the wait of line 347.
Kill ==
    /\ pc = "kill"
    /\ \E r1, r2 \in BOOLEAN :
          lastAction' = decideAction(targetMachine.zoneId, r1, r2)
    /\ killed' = Append(killed, targetMachine.zoneId)
    /\ killedMachines' = killedMachines + 1
    /\ machines' = AfterKill(machines)
    /\ pc' = "cooldown"
    /\ UNCHANGED <<env, workers, shuffled, store, errors, targetMachine, late>>

\* Mutant of Cooldown: the wait of line 347 is for the timer alone.
Cooldown_TimerOnly ==
    /\ pc = "cooldown"
    /\ late' = late
    /\ LoopTop(killedMachines, machines)
    /\ UNCHANGED <<env, pool, store, killed, lastAction, killedMachines,
                   targetMachine>>

\* Lines 347-351 and the loop test after them: the rest of the mean delay has
\* elapsed and self->ignoreSSFailures is ready.
Cooldown ==
    /\ pc = "cooldown"
    /\ Ready(ignoreSSFailures)
    /\ late' = (late \/ ignoreSSFailures # 0)
    /\ LoopTop(killedMachines, machines)
    /\ UNCHANGED <<env, pool, store, killed, lastAction, killedMachines,
                   targetMachine>>

\* ------------------------------------------ ignoreSSFailuresForDuration
\* Line 43: the window's setHealthyZone commits, or meets a conflict.
WindowSetHealthyZone(i) ==
    /\ windows[i] = "setHealthyZone"
    /\ \E ok \in BOOLEAN :
          IF ok
          THEN /\ healthyZone' = healthyZoneValue(ignoreSSFailuresZoneString, i)
               /\ windows' = [windows EXCEPT ![i] = "delay"]
          ELSE /\ windows' = [windows EXCEPT ![i] = "setHealthyZoneRetry"]
               /\ UNCHANGED healthyZone
    /\ UNCHANGED <<env, pool, ignoreSSFailures, log, killedMachines,
                   targetMachine, pc, late>>

WindowSetHealthyZoneRetry(i) ==
    /\ windows[i] = "setHealthyZoneRetry"
    /\ windows' = [windows EXCEPT ![i] = "setHealthyZone"]
    /\ UNCHANGED <<env, pool, ignoreSSFailures, healthyZone, log, killedMachines,
                   targetMachine, pc, late>>

\* Mutant of WindowDelay: the window returns when its duration has elapsed,
\* without clearing the marker.
WindowDelay_ReturnsEarly(i) ==
    /\ windows[i] = "delay"
    /\ windows' = [windows EXCEPT ![i] = "done"]
    /\ UNCHANGED <<env, pool, ignoreSSFailures, healthyZone, log, killedMachines,
                   targetMachine, pc, late>>

\* Lines 45-52: the duration has elapsed; the clear is sent for commit.
WindowDelay(i) ==
    /\ windows[i] = "delay"
    /\ windows' = [windows EXCEPT ![i] = "commit"]
    /\ UNCHANGED <<env, pool, ignoreSSFailures, healthyZone, log, killedMachines,
                   targetMachine, pc, late>>

\* Lines 52-56: tr.commit() of the clear succeeds, or fails with an error.
WindowCommit(i) ==
    /\ windows[i] = "commit"
    /\ \E ok \in BOOLEAN :
          IF ok
          THEN /\ healthyZone' = NoHealthyZone
               /\ windows' = [windows EXCEPT ![i] = "done"]
          ELSE /\ windows' = [windows EXCEPT ![i] = "onError"]
               /\ UNCHANGED healthyZone
    /\ UNCHANGED <<env, pool, ignoreSSFailures, log, killedMachines,
                   targetMachine, pc, late>>

\* Line 56: tr.onError(e) has backed off; the loop of line 48 tries again.
WindowOnError(i) ==
    /\ windows[i] = "onError"
    /\ windows' = [windows EXCEPT ![i] = "commit"]
    /\ UNCHANGED <<env, pool, ignoreSSFailures, healthyZone, log, killedMachines,
                   targetMachine, pc, late>>

\* ------------------------------------------------------ start(), timeout
\* Whether the timer of timeout(..., testDuration, Void()) can fire at the
\* current wait.  meanDelay is testDuration / machinesToKill (line 126) and
\* the two delays of one event add up to meanDelay (lines 259, 290, 347, 349),
\* so a simulated run is ahead of the timer until a wait of unbounded length
\* (a transaction, a suppression window) has taken time, and level with it at
\* the last cooldown.  Every wait of the live run is of unbounded length.
TimerMayFire ==
    IF simulated
    THEN /\ pc \in SimWaits \ {"dcDelay"}
         /\ \/ late
            \/ pc \in {"getReadVersion", "onError", "setHealthyZone",
                       "setHealthyZoneRetry"}
            \/ pc = "cooldown" /\ ~Ready(ignoreSSFailures)
            \/ pc = "cooldown" /\ killedMachines >= self.machinesToKill
    ELSE pc \in LiveWaits

\* Mutant of Timeout: the elapsed budget is thrown as an error, as
\* timeoutError() would.
Timeout_Error ==
    /\ TimerMayFire
    /\ pc' = "timedOut"
    /\ errors' = Append(errors, "timed_out")
    /\ UNCHANGED <<env, pool, store, killed, lastAction, killedMachines,
                   targetMachine, late>>

\* Mutant of Timeout: the cancellation of the run reaches the windows it
\* started, as it would without uncancellable().
Timeout_CancelsWindows ==
    /\ TimerMayFire
    /\ pc' = "timedOut"
    /\ windows' = [i \in DOMAIN windows |->
                     IF windows[i] = "done" THEN "done" ELSE "cancelled"]
    /\ UNCHANGED <<env, pool, ignoreSSFailures, healthyZone, log, killedMachines,
                   targetMachine, late>>

\* Lines 134-136 and 139-141: the time budget elapses first.  The run is
\* cancelled and start() yields Void; actors the run does not own go on.
Timeout ==
    /\ TimerMayFire
    /\ pc' = "timedOut"
    /\ UNCHANGED <<env, pool, store, log, killedMachines, targetMachine, late>>

\* Lines 143-145: neither scheduler applies to this client.
StartOther ==
    /\ pc = "constructed"
    /\ ~self.enabled
    /\ ~(clientId = 0 /\ ~simulated)
    /\ Exit
    /\ UNCHANGED <<env, pool, store, killed, lastAction, killedMachines,
                   targetMachine, late>>

\* ------------------------------------------------ noSimMachineKillWorker
\* Lines 151-153.
noSimIsViableKill(worker) == worker.processClass = TesterClass

\* Lines 162-166: the reboot request sent to every target.
rbReq == IF self.reboot THEN "suspendDuration" ELSE "uint32_max"

\* The else-if chain of lines 175-219: the locality field of the scoped kill
\* that applies, "none" for the unconstrained loop.
killScope ==
    IF self.killDc THEN "dcId"
    ELSE IF self.killMachine THEN "machineId"
    ELSE IF self.killDatahall THEN "dataHallId"
    ELSE IF self.killProcess THEN "processId"
    ELSE "none"

\* Lines 138-141 and 156-159: the live run starts and asks for the workers.
StartLive ==
    /\ pc = "constructed"
    /\ ~self.enabled
    /\ clientId = 0 /\ ~simulated
    /\ pc' = "getWorkers"
    /\ UNCHANGED <<env, pool, store, log, killedMachines, targetMachine, late>>

\* Lines 159-175: the roster arrives, is filtered and shuffled.
GetWorkers ==
    /\ pc = "getWorkers"
    /\ \E w \in randomShuffle(Elements(SelectSeq(allWorkers, noSimIsViableKill))) :
          /\ workers' = w
          /\ shuffled' = w
    /\ pc' = IF killScope # "none" THEN "noSimKillScope" ELSE "noSimLoop"
    /\ UNCHANGED <<env, machines, store, log, killedMachines, targetMachine, late>>

\* Mutant of matches: every branch compares the datacenter, as the first does.
matches_DcOnly(worker, scope, killId) ==
    present(worker.locality.dcId) /\ worker.locality.dcId = killId

\* Mutant of matches: the identifiers are compared without the test of
\* present(), so an absent identifier equals an absent one.
matches_AbsentMatches(worker, scope, killId) ==
    worker.locality[scope] = killId

\* The condition of lines 181, 192, 203 and 214.
matches(worker, scope, killId) ==
    present(worker.locality[scope]) /\ worker.locality[scope] = killId

\* Lines 175-218, then 254: one scoped kill.  Without a targetId the scope
\* value is read from workers.back(); on an empty pool that read is undefined:
\* the run crashes, or reads some value and goes on to loop over no worker.
NoSimKillScope ==
    /\ pc = "noSimKillScope"
    /\ IF self.targetId = "" /\ Len(workers) = 0
       THEN /\ pc' \in {"undefined", "done"}
            /\ UNCHANGED <<killed, lastAction>>
       ELSE LET killId == IF self.targetId = ""
                          THEN back(workers).locality[killScope]
                          ELSE Some(self.targetId)
                sent == SelectSeq(workers, LAMBDA w : matches(w, killScope, killId))
            IN  /\ killed' = killed \o [i \in 1..Len(sent) |-> sent[i].interf]
                /\ lastAction' = IF Len(sent) = 0 THEN lastAction
                                 ELSE Action("reboot.send", back(sent).interf,
                                             "none", FALSE, rbReq)
                /\ pc' = "done"
    /\ UNCHANGED <<env, pool, store, errors, killedMachines, targetMachine, late>>

\* Lines 220-226: the loop test of the unconstrained live run.
NoSimLoop ==
    /\ pc = "noSimLoop"
    /\ pc' = IF ~WhileCondition(killedMachines, Len(workers)) THEN "done"
             ELSE IF self.waitForVersion THEN "noSimGetReadVersion"
             ELSE "noSimSend"
    /\ UNCHANGED <<env, pool, store, log, killedMachines, targetMachine, late>>

\* Lines 228-233.
NoSimGetReadVersion ==
    /\ pc = "noSimGetReadVersion"
    /\ \E ok \in BOOLEAN : pc' = IF ok THEN "noSimSend" ELSE "noSimOnError"
    /\ UNCHANGED <<env, pool, store, log, killedMachines, targetMachine, late>>

\* Lines 234-236.
NoSimOnError ==
    /\ pc = "noSimOnError"
    /\ pc' = "noSimGetReadVersion"
    /\ UNCHANGED <<env, pool, store, log, killedMachines, targetMachine, late>>

\* Lines 240-251: the tail worker is sent the reboot request and leaves the
\* pool.
NoSimSend ==
    /\ pc = "noSimSend"
    /\ lastAction' = Action("reboot.send", back(workers).interf, "none", FALSE, rbReq)
    /\ killed' = Append(killed, back(workers).interf)
    /\ killedMachines' = killedMachines + 1
    /\ workers' = pop_back(workers)
    /\ pc' = "noSimLoop"
    /\ UNCHANGED <<env, machines, shuffled, store, errors, targetMachine, late>>

\* ------------------------------------------------------- specifications
\* A step of a window: the continuation of another actor, which the event
\* loop runs only while the run is suspended at a wait or has ended.
Window ==
    /\ pc \in Waits \cup Ended
    /\ \E i \in DOMAIN windows :
        \/ WindowSetHealthyZone(i)
        \/ WindowSetHealthyZoneRetry(i)
        \/ WindowDelay(i)
        \/ WindowCommit(i)
        \/ WindowOnError(i)

\* The steps of a simulated run and of the windows it starts.
SimNext ==
    \/ StartSim
    \/ DataCenterKill
    \/ AfterDelay
    \/ GetReadVersion
    \/ OnError
    \/ DecideNone
    \/ DecideMaintenance
    \/ DecideSuppression
    \/ SetHealthyZone
    \/ SetHealthyZoneRetry
    \/ Kill
    \/ Cooldown
    \/ Window
    \/ Timeout

\* The steps of a live run and of the other clients.
LiveNext ==
    \/ StartOther
    \/ StartLive
    \/ GetWorkers
    \/ NoSimKillScope
    \/ NoSimLoop
    \/ NoSimGetReadVersion
    \/ NoSimOnError
    \/ NoSimSend

Next == SimNext \/ LiveNext

Spec == Init /\ [][Next]_vars

\* The scheduling of a window: a stretch of the run between two waits is run
\* to its end (weak fairness on the steps taken from a program point that is
\* not a wait); Flow runs an actor whose wait is over, so a
\* timer that has elapsed and an onError back-off are taken (weak fairness);
\* a commit that is retried again and again succeeds at last (strong
\* fairness), which is the retry contract of the store.
WindowFairness ==
    /\ WF_vars(DecideNone \/ DecideMaintenance \/ DecideSuppression \/ Kill)
    /\ \A i \in 1..MaxKill :
        /\ WF_vars(pc \in Waits \cup Ended /\ i \in DOMAIN windows /\
                      (WindowSetHealthyZoneRetry(i) \/ WindowDelay(i) \/ WindowOnError(i)))
        /\ SF_vars(pc \in Waits \cup Ended /\ i \in DOMAIN windows /\
                      (WindowSetHealthyZone(i) \/ WindowCommit(i)) /\
                      windows'[i] \in {"delay", "done"})

\* The simulated runs, with the options that only choose the kind of the kill
\* action (reboot, allowFaultInjection) and the targetId, which the simulated
\* run never reads, at their defaults.
FairInit ==
    /\ InitSim
    /\ ~self.reboot /\ self.allowFaultInjection /\ self.targetId = ""

FairSpec == FairInit /\ [][SimNext]_vars /\ WindowFairness

\* The scheduling of the run: a delay that was started elapses and a back-off
\* ends (weak fairness); a transaction that is tried again and again succeeds
\* at last (strong fairness).  Nothing is assumed of the timer of timeout().
RunFairness ==
    /\ WF_vars(StartSim \/ DataCenterKill \/ AfterDelay \/ OnError
                  \/ SetHealthyZoneRetry \/ Cooldown)
    /\ SF_vars((GetReadVersion \/ SetHealthyZone) /\ pc' \in {"decide", "kill"})

\* The simulated runs in which every delay elapses, every transaction
\* succeeds at last and every window resolves.
TerminationSpec == FairInit /\ [][SimNext]_vars /\ WindowFairness /\ RunFairness

\* ------------------------------------------------------------ vocabulary
Min(a, b) == IF a < b THEN a ELSE b

\* The run is one of the two schedulers with no scoped kill selected.
Unconstrained ==
    /\ clientId = 0
    /\ IF simulated THEN ~self.killDc ELSE killScope = "none"

\* The pool of the run has been captured and shuffled.  The simulated run does
\* so in the step that starts it.  The live run does so when the roster
\* arrives; a live run cut off with an empty pool and nothing sent was cut off
\* while it waited for the roster, since with an empty pool it meets no
\* further wait.
Started ==
    IF simulated
    THEN pc # "constructed"
    ELSE /\ pc \notin {"constructed", "getWorkers"}
         /\ pc = "timedOut" => (workers # <<>> \/ killed # <<>>)

\* The run left its scheduler on its own: it returned or threw at the exit.
Completed == pc \in {"done", "thrown"}

CurrentPool == IF simulated THEN machines ELSE workers

\* What a kill action names a pool member by.
Id(member) == IF simulated THEN member.zoneId ELSE member.interf
Ids(members) == { Id(members[i]) : i \in DOMAIN members }

\* The pool is never shrunk: a simulated run with the replacement option.
WithReplacement == simulated /\ self.replacement

\* ------------------------------------------------------------------- C1
\* C1 as stated: a completed unconstrained run that started with a pool of
\* P >= K members has killed exactly min(N, P - K) distinct members.
C1_AsStated ==
    (Unconstrained /\ Completed /\ Len(shuffled) >= self.machinesToLeave) =>
        Cardinality(Elements(killed)) =
            Min(self.machinesToKill, Len(shuffled) - self.machinesToLeave)

\* C1 as amended: without replacement (the live run never replaces) a
\* completed unconstrained run with P >= K has issued exactly min(N, P - K)
\* kills, each against a different member of the initial pool; with
\* replacement it has issued N kills, all against the tail member of the pool,
\* when P > K, and none when P = K.
C1_KillCount ==
    (Unconstrained /\ Completed /\ Len(shuffled) >= self.machinesToLeave) =>
        IF WithReplacement
        THEN /\ Len(killed) = IF Len(shuffled) > self.machinesToLeave
                              THEN self.machinesToKill ELSE 0
             /\ \A i \in DOMAIN killed : killed[i] = Id(back(shuffled))
        ELSE /\ Len(killed) =
                    Min(self.machinesToKill, Len(shuffled) - self.machinesToLeave)
             /\ Cardinality(Elements(killed)) = Len(killed)
             /\ Elements(killed) \subseteq Ids(shuffled)

\* A run of N = 2, K = 1, P = 3 without replacement that completed with two
\* different members killed.
C1_Witness ==
    /\ Unconstrained /\ Completed /\ ~WithReplacement
    /\ self.machinesToKill = 2 /\ self.machinesToLeave = 1 /\ Len(shuffled) = 3
    /\ Cardinality(Elements(killed)) = 2

\* ------------------------------------------------------------------- C2
\* C2: in an unconstrained run that started with P >= K members the pool never
\* holds fewer than K members, and every step that issues a kill is taken
\* from a state whose pool holds more than K members.
C2_Floor ==
    /\ [] ((Unconstrained /\ Started /\ Len(shuffled) >= self.machinesToLeave)
             => Len(CurrentPool) >= self.machinesToLeave)
    /\ [][ (Unconstrained /\ killed' # killed)
             => Len(CurrentPool) > self.machinesToLeave ]_vars

\* A kill has just taken the pool down to exactly K > 0 members.
C2_Witness ==
    /\ Unconstrained /\ Started /\ self.machinesToLeave > 0
    /\ Len(shuffled) > self.machinesToLeave
    /\ Len(CurrentPool) = self.machinesToLeave
    /\ killed # <<>>

\* ------------------------------------------------------------------- C3
\* C3: without replacement, at every moment of an unconstrained run the i-th
\* kill was issued against the i-th member from the tail of the shuffled pool
\* and the pool is the shuffled pool without its last Len(killed) members; so
\* the killed members belong to the initial pool and none is killed twice.
C3_TailOrder ==
    (Unconstrained /\ Started /\ ~WithReplacement) =>
        /\ Len(killed) <= Len(shuffled)
        /\ \A i \in DOMAIN killed :
              killed[i] = Id(shuffled[Len(shuffled) - i + 1])
        /\ CurrentPool = SubSeq(shuffled, 1, Len(shuffled) - Len(killed))
        /\ \A i, j \in DOMAIN killed : i # j => killed[i] # killed[j]

\* Two kills without replacement out of a pool of three.
C3_Witness ==
    /\ Unconstrained /\ ~WithReplacement
    /\ Len(shuffled) = 3 /\ Len(killed) = 2

\* ------------------------------------------------------------------- C4
\* C4: every suppression window that has been started eventually completes,
\* whatever the run does or whether it is cut off meanwhile; the step that
\* completes it commits the clear of healthyZoneKey, and no marker written by a
\* completed window is in the store.
C4_WindowCloses ==
    /\ \A i \in 1..MaxKill :
          (i \in DOMAIN windows) ~> (i \in DOMAIN windows /\ windows[i] = "done")
    /\ [][ \A i \in DOMAIN windows :
             (windows[i] # "done" /\ windows'[i] = "done")
                => healthyZone' = NoHealthyZone ]_vars
    /\ [] (\A i \in DOMAIN windows :
             windows[i] = "done" => healthyZone.writer # i)

\* The run of two events was cut off during its first cooldown, before any
\* other wait had taken time, while its window was open; the window has
\* completed nevertheless.
C4_Witness ==
    /\ pc = "timedOut"
    /\ self.machinesToKill = 2 /\ killedMachines = 1 /\ ~late
    /\ windows = <<"done">>
    /\ healthyZone = NoHealthyZone

\* ------------------------------------------------------------------- C5
\* C5 as stated: a simulated run with killSelf set that has ended, in any way
\* but a failed ASSERT, has thrown please_reboot exactly once.
C5_AsStated ==
    (self.enabled /\ self.killSelf /\ pc \in Ended \ {"error"}) =>
        errors = <<"please_reboot">>

\* C5 as amended: a simulated run with killSelf set that leaves its scheduler
\* on its own has thrown please_reboot exactly once; a run cut off by the time
\* budget has thrown nothing; no run throws more than one error, and once an
\* error is thrown no kill action is issued and nothing more is thrown.
C5_SelfDestruct ==
    /\ [] ((self.enabled /\ self.killSelf /\ Completed)
             => (pc = "thrown" /\ errors = <<"please_reboot">>))
    /\ [] (pc = "timedOut" => errors = <<>>)
    /\ [] (Len(errors) <= 1)
    /\ [][ errors # <<>> =>
             (killed' = killed /\ lastAction' = lastAction /\ errors' = errors) ]_vars

\* A simulated run has thrown please_reboot after its second kill.
C5_Witness ==
    /\ self.enabled /\ self.killSelf /\ ~self.killDc
    /\ pc = "thrown" /\ errors = <<"please_reboot">>
    /\ Len(killed) = 2

\* ------------------------------------------------------------------- C6
\* C6: the step in which the time budget cuts the run off is taken from a
\* wait, throws no error and leaves the kill count and the kill log as they
\* are; afterwards the run stays cut off, kills nothing and throws nothing.
C6_CutOff ==
    /\ [][ pc' = "timedOut" =>
             /\ pc \in Waits \cup {"timedOut"}
             /\ errors' = <<>>
             /\ killed' = killed
             /\ lastAction' = lastAction
             /\ killedMachines' = killedMachines ]_vars
    /\ [][ pc = "timedOut" => pc' = "timedOut" ]_vars

\* The budget elapsed after one of two requested events.
C6_Witness ==
    /\ pc = "timedOut"
    /\ self.machinesToKill = 2 /\ killedMachines = 1 /\ Len(killed) = 1
    /\ errors = <<>>

\* ------------------------------------------------------------------- C7
\* C7: a simulated run with killDc set and a pool that is not empty is, at
\* every moment, before its start, in its one initial delay with nothing
\* killed, or ended on its own after exactly one killDataCenter against the
\* dcId of the tail of the pool, of kind Reboot when reboot is set; the pool
\* and the event counter are never changed, whatever machinesToKill is.  (With
\* an empty pool the ASSERT of line 267 ends the run before any kill.)
C7_DatacenterKill ==
    (self.enabled /\ self.killDc) =>
        /\ Started => machines = shuffled
        /\ killedMachines = 0
        /\ \/ /\ pc \in {"constructed", "dcDelay"}
              /\ killed = <<>> /\ lastAction = NoAction
           \/ /\ pc = "error"
              /\ shuffled = <<>> /\ killed = <<>> /\ lastAction = NoAction
           \/ /\ Completed
              /\ shuffled # <<>>
              /\ killed = <<back(shuffled).dcId>>
              /\ lastAction.prim = "killDataCenter"
              /\ lastAction.target = back(shuffled).dcId
              /\ self.reboot => lastAction.kt = Reboot

\* A datacenter Reboot has been issued and the run has ended, with two events
\* requested and three members in the pool.
C7_Witness ==
    /\ self.enabled /\ self.killDc /\ self.reboot
    /\ self.machinesToKill = 2 /\ Len(machines) = 3
    /\ pc = "done" /\ lastAction.kt = Reboot /\ Len(killed) = 1

\* ------------------------------------------------------------------- C8
Count(s, x) == Cardinality({ i \in DOMAIN s : s[i] = x })

\* The scope of the live scoped kill: the first of killDc, killMachine,
\* killDatahall, killProcess that is set.
C8_Scope ==
    CASE self.killDc -> "dcId"
      [] ~self.killDc /\ self.killMachine -> "machineId"
      [] ~self.killDc /\ ~self.killMachine /\ self.killDatahall -> "dataHallId"
      [] OTHER -> "processId"

\* C8: a live scoped kill with a targetId sends, by the time the run has
\* returned, exactly one reboot request to every pool member whose identifier
\* in the scope is present and equal to targetId and none to any other pool
\* member or to any worker outside the pool; before that it has sent none.
C8_ScopedOverride ==
    (/\ clientId = 0 /\ ~simulated
     /\ self.killDc \/ self.killMachine \/ self.killDatahall \/ self.killProcess
     /\ self.targetId # "") =>
        IF pc = "done"
        THEN /\ \A w \in Elements(workers) :
                  Count(killed, w.interf) =
                      IF /\ w.locality[C8_Scope] # None
                         /\ w.locality[C8_Scope] = self.targetId
                      THEN 1 ELSE 0
             /\ Elements(killed) \subseteq Ids(workers)
        ELSE killed = <<>>

\* A machine-scoped kill with targetId "a" over a pool of three has sent its
\* request to two members and not to the third.
C8_Witness ==
    /\ clientId = 0 /\ ~simulated /\ pc = "done"
    /\ ~self.killDc /\ self.killMachine /\ self.targetId = "a"
    /\ Len(workers) = 3 /\ Len(killed) = 2

\* ------------------------------------------------------------------- C9
\* C9 as stated: in the live run no tester-class worker is in the pool or is
\* sent a reboot request, and every other worker of the roster is in the pool.
C9_TestersExcluded ==
    (clientId = 0 /\ ~simulated /\ Started) =>
        /\ \A i \in DOMAIN shuffled : shuffled[i].processClass # TesterClass
        /\ \A i \in DOMAIN allWorkers :
              allWorkers[i].processClass # TesterClass
                  => allWorkers[i] \in Elements(shuffled)
        /\ \A i \in DOMAIN allWorkers :
              allWorkers[i].processClass = TesterClass
                  => allWorkers[i].interf \notin Elements(killed)

\* ------------------------------------------------------------------ C10
\* C10: every kill action a simulated run issues is, when reboot is not set, a
\* killZone or killDataCenter of kind RebootAndDelete, KillInstantly or
\* InjectFaults, and, when reboot is set, a rebootProcess or a killZone or
\* killDataCenter of kind Reboot.
C10_RebootFixesKind ==
    (self.enabled /\ lastAction.prim # "none") =>
        /\ lastAction.prim \in
              IF self.killDc THEN {"killDataCenter"} ELSE {"killZone", "rebootProcess"}
        /\ IF self.reboot
           THEN \/ lastAction.prim = "rebootProcess"
                \/ lastAction.kt = Reboot
           ELSE /\ lastAction.prim # "rebootProcess"
                /\ lastAction.kt \in {RebootAndDelete, KillInstantly, InjectFaults}

\* A run with reboot set has rebooted a single process of a zone.
C10_Witness ==
    /\ self.enabled /\ self.reboot
    /\ lastAction.prim = "rebootProcess"

\* ------------------------------------------------------------------ C11
\* The windows that have not yet committed their clear.
OpenWindows == { i \in DOMAIN windows : windows[i] # "done" }

\* C11: the simulated loop leaves the wait after a kill for its next iteration
\* (or its exit) only when the window kept in self->ignoreSSFailures, if any,
\* has resolved; so at every moment at most one window is open, it is the most
\* recent one, and the run is then still in the event that started it (or was
\* cut off); while a window is open the marker is changed by that window only.
C11_OneWindow ==
    /\ [][ (pc = "cooldown" /\ pc' \notin {"cooldown", "timedOut"})
             => Ready(ignoreSSFailures) ]_vars
    /\ [] (Cardinality(OpenWindows) <= 1)
    /\ [] (\A i \in OpenWindows :
             /\ i = Len(windows) /\ ignoreSSFailures = i
             /\ pc \in {"kill", "cooldown", "timedOut"})
    /\ [][ (OpenWindows # {} /\ healthyZone' # healthyZone)
             => (windows' # windows /\ pc' = pc) ]_vars

\* The second event of a run has started a window after the window of the
\* first event had resolved.
C11_Witness ==
    /\ Len(windows) = 2 /\ windows[1] = "done" /\ windows[2] = "delay"
    /\ pc = "cooldown" /\ killedMachines = 2

\* ------------------------------------------------------------------ C12
\* The run is in the gate of an iteration: it waits for a read version or for
\* the back-off after an error.
InGate == pc \in {"getReadVersion", "onError", "noSimGetReadVersion", "noSimOnError"}

\* The run is in an iteration, past the place of the gate and before the kill.
PastGate == pc \in {"decide", "setHealthyZone", "setHealthyZoneRetry", "kill",
                    "noSimSend"}

\* C12: with waitForVersion set, in both unconstrained loops, the part of an
\* iteration that leads to the kill is entered only by the step in which
\* getReadVersion succeeds, a kill is issued only from that part and ends it
\* (so every kill follows a success of its own iteration); a step taken in the
\* gate throws nothing, kills nothing and does not end the run on its own: it
\* leads to another attempt or on to the kill, unless the time budget cuts the
\* run off.
C12_FreshReadGate ==
    /\ [][ (Unconstrained /\ self.waitForVersion /\ ~PastGate /\ PastGate')
             => pc \in {"getReadVersion", "noSimGetReadVersion"} ]_vars
    /\ [][ (Unconstrained /\ self.waitForVersion /\ killed' # killed)
             => (PastGate /\ ~PastGate' /\ Len(killed') = Len(killed) + 1) ]_vars
    /\ [][ (Unconstrained /\ PastGate /\ ~PastGate')
             => (killed' # killed \/ pc' = "timedOut") ]_vars
    /\ [][ InGate =>
             /\ errors' = errors /\ killed' = killed
             /\ killedMachines' = killedMachines
             /\ InGate' \/ PastGate' \/ pc' = "timedOut" ]_vars
    /\ [][ (pc \in {"onError", "noSimOnError"} /\ pc' # pc)
             => pc' \in {"getReadVersion", "noSimGetReadVersion", "timedOut"} ]_vars

\* The second iteration of a gated simulated run waits for the back-off after
\* an error of getReadVersion; the first iteration has killed.
C12_Witness ==
    /\ Unconstrained /\ self.waitForVersion
    /\ pc = "onError" /\ late /\ Len(killed) = 1

\* ------------------------------------------------------------------ C13
\* The run waits in the maintenance branch of an event.
InMaintenance == pc \in {"setHealthyZone", "setHealthyZoneRetry"}

\* C13: an event that takes the maintenance branch reaches its kill only by
\* the step that commits the marker naming the zone of the target; the kill
\* that follows is issued against that zone with the marker as committed; and
\* no window is started by the step that takes the branch, while the run waits
\* in it, or by its kill, while the step that starts a window goes straight to
\* the kill and writes no maintenance marker.
C13_MaintenanceFirst ==
    /\ [][ (InMaintenance /\ ~InMaintenance' /\ pc' # "timedOut") =>
             /\ pc' = "kill"
             /\ healthyZone' = healthyZoneValue(targetMachine.zoneId, 0)
             /\ targetMachine' = targetMachine ]_vars
    /\ [][ pc = "kill" =>
             /\ healthyZone' = healthyZone
             /\ killed' \in {killed, Append(killed, targetMachine.zoneId)} ]_vars
    /\ [][ (InMaintenance \/ InMaintenance' \/ pc = "kill")
             => Len(windows') = Len(windows) ]_vars
    /\ [][ Len(windows') # Len(windows) =>
             /\ pc = "decide" /\ pc' = "kill"
             /\ healthyZone' = healthyZone ]_vars

\* An event of a run that never started a window has killed the zone its
\* maintenance marker names.
C13_Witness ==
    /\ pc = "cooldown" /\ windows = <<>>
    /\ killed # <<>>
    /\ healthyZone = healthyZoneValue(killed[Len(killed)], 0)

\* ------------------------------------------------------------------ C14
\* C14: once captured, the pool never grows; in the simulated per-event loop
\* without replacement its size is at every moment the initial size minus the
\* number of events performed, which is the number of kills issued; with
\* replacement, and in the datacenter-kill path, the pool is at every moment
\* the pool as the shuffle left it.
C14_PoolOnlyShrinks ==
    /\ [][ Started => Len(CurrentPool') <= Len(CurrentPool) ]_vars
    /\ [] ((self.enabled /\ Started /\ ~self.killDc /\ ~self.replacement) =>
             /\ Len(machines) = Len(shuffled) - killedMachines
             /\ killedMachines = Len(killed))
    /\ [] ((self.enabled /\ Started /\ ~self.killDc /\ self.replacement) =>
             /\ machines = shuffled
             /\ killedMachines = Len(killed))
    /\ [] ((self.enabled /\ Started /\ self.killDc) => machines = shuffled)

\* Two events with replacement have left a pool of three as it was.
C14_Witness ==
    /\ self.enabled /\ ~self.killDc /\ self.replacement
    /\ killedMachines = 2 /\ Len(machines) = 3 /\ machines = shuffled

\* ------------------------------------------------------------------ C15
\* C15: the simulated per-event loop comes to an end, with or without
\* replacement; every kill raises the counter by exactly one and nothing else
\* changes it, the counter never exceeds machinesToKill, an iteration is begun
\* only while the counter is below machinesToKill and the pool is above
\* machinesToLeave, and the step that ends a cooldown leaves the loop exactly
\* when that condition has become false.
C15_LoopTerminates ==
    /\ (self.enabled /\ ~self.killDc) => <>(pc \in Ended)
    /\ [][ (self.enabled /\ ~self.killDc) =>
             killedMachines' =
                 IF killed' # killed THEN killedMachines + 1 ELSE killedMachines ]_vars
    /\ [] (killedMachines <= self.machinesToKill)
    /\ [] ((self.enabled /\ pc = "delay")
             => WhileCondition(killedMachines, Len(machines)))
    /\ [][ (self.enabled /\ pc = "cooldown" /\ pc' \notin {"cooldown", "timedOut"})
             => IF WhileCondition(killedMachines, Len(machines))
                THEN pc' = "delay"
                ELSE pc' \in {"done", "thrown"} ]_vars

\* A run with replacement has left its loop on its own after two events, with
\* its pool of three still whole.
C15_Witness ==
    /\ self.enabled /\ ~self.killDc /\ self.replacement
    /\ Completed /\ killedMachines = 2 /\ Len(machines) = 3

\* ------------------------------------------------------------------ C16
\* C16 as stated: the datacenter killed by a simulated datacenter kill is the
\* one targetId names when a targetId is configured, and the datacenter of
\* the tail of the pool only when none is.
C16_TargetedDatacenter ==
    (self.enabled /\ self.killDc /\ lastAction.prim = "killDataCenter") =>
        lastAction.target = IF self.targetId # ""
                            THEN Some(self.targetId)
                            ELSE back(shuffled).dcId

\* ------------------------------------------------------------------ C17
\* C17 as stated: when the run is about to issue the kill of an event that has
\* started a suppression window, the marker of that window is in the store.
C17_MarkerBeforeKill ==
    (self.enabled /\ pc = "kill") =>
        \A i \in OpenWindows :
            healthyZone = healthyZoneValue(ignoreSSFailuresZoneString, i)

\* ------------------------------------------------------------------ C18
\* C18 as stated: with allowFaultInjection not set, no kill action a simulated
\* run issues, in the per-event loop or in the datacenter path, is of kind
\* InjectFaults.
C18_NoInjectFaults ==
    (self.enabled /\ ~self.allowFaultInjection) => lastAction.kt # InjectFaults

\* ------------------------------------------------------------------ C19
\* C19: while no window has been started the result of check is resolved;
\* afterwards it is the future of the window started last; it becomes
\* resolved only by the step in which that window commits the clear of the
\* marker, and unresolved only by the start of a new window; the step in which
\* the time budget cuts the run off leaves the future and the windows as
\* they are.
C19_CheckFollowsWindow ==
    /\ [] (windows = <<>> => (ignoreSSFailures = 0 /\ check))
    /\ [] (windows # <<>> =>
             /\ ignoreSSFailures = Len(windows)
             /\ check <=> windows[Len(windows)] = "done")
    /\ [][ (~check /\ check') =>
             /\ Len(windows') = Len(windows)
             /\ windows[Len(windows)] = "commit"
             /\ healthyZone' = NoHealthyZone ]_vars
    /\ [][ (check /\ ~check') => Len(windows') = Len(windows) + 1 ]_vars
    /\ [][ (pc # "timedOut" /\ pc' = "timedOut")
             => (ignoreSSFailures' = ignoreSSFailures /\ windows' = windows) ]_vars

\* The run was cut off and the result of check is still pending: the window
\* started last is about to commit its clear.
C19_Witness ==
    /\ pc = "timedOut" /\ ~check
    /\ windows = <<"commit">>
    /\ healthyZone = healthyZoneValue(ignoreSSFailuresZoneString, 1)

\* ------------------------------------------------------------------ C20
\* A live scoped kill without a targetId over a pool that is not empty has
\* returned.
C20_Case ==
    /\ clientId = 0 /\ ~simulated
    /\ self.killDc \/ self.killMachine \/ self.killDatahall \/ self.killProcess
    /\ self.targetId = ""
    /\ pc = "done" /\ workers # <<>>

\* C20 as stated: the worker at the tail of the pool is among the workers that
\* were sent the reboot request, so at least one request was sent.
C20_AsStated ==
    C20_Case => back(workers).interf \in Elements(killed)

\* C20 as amended: the scope value is the identifier of the tail worker in
\* the scope; when it is present, exactly the pool members with that
\* identifier, the tail worker among them, were sent one request each; when
\* the tail worker has no identifier in the scope, no request was sent.
C20_TailScope ==
    C20_Case =>
        LET killId == back(workers).locality[C8_Scope] IN
        IF present(killId)
        THEN /\ \A w \in Elements(workers) :
                  Count(killed, w.interf) =
                      IF w.locality[C8_Scope] = killId THEN 1 ELSE 0
             /\ back(workers).interf \in Elements(killed)
             /\ Elements(killed) \subseteq Ids(workers)
        ELSE killed = <<>>

\* A datacenter-scoped kill without a targetId over a pool of three has sent
\* its request to the tail worker and to the other member of its datacenter,
\* and not to the member without a datacenter.
C20_Witness ==
    /\ C20_Case /\ self.killDc
    /\ Len(workers) = 3 /\ Len(killed) = 2
    /\ back(workers).interf \in Elements(killed)

====
